---- MODULE Spec2Model ----
(***************************************************************************)
(* polymarket-rs: the market-order price calculator (orders/price.rs) and  *)
(* the HTTP client wrapper (http/client.rs).                               *)
(*                                                                         *)
(* Decimal values are rust_decimal values: a mantissa below 2^96 and a     *)
(* scale 0..28.  Mantissas are wider than the integers TLC computes with,  *)
(* so they are kept as little-endian sequences of base-10^4 limbs and the  *)
(* arithmetic is done limb by limb at full width.                          *)
(***************************************************************************)
EXTENDS Integers, Sequences, FiniteSets, TLC

VARIABLES positions, amount_to_match, ret, client, calls

vars == <<positions, amount_to_match, ret, client, calls>>

----------------------------------------------------------------------------
(* Natural numbers of any size: little-endian limbs in base 10^4, no       *)
(* leading zero limb, <<>> is zero.                                        *)

\* The limb base of the representation; a power of ten, so that a change
\* of decimal scale is a shift.
Base == 10000

Max2(x, y) == IF x >= y THEN x ELSE y

Limb(a, i) == IF i >= 1 /\ i <= Len(a) THEN a[i] ELSE 0

NatNorm(a) ==
  LET nz == {i \in 1..Len(a) : a[i] # 0}
  IN  IF nz = {} THEN <<>>
      ELSE SubSeq(a, 1, CHOOSE i \in nz : \A j \in nz : j <= i)

\* 10^k for k in 0..3
Pow10(k) == CASE k = 0 -> 1 [] k = 1 -> 10 [] k = 2 -> 100 [] OTHER -> 1000

\* The number written with the decimal digits ds, most significant first.
Nat10(ds) ==
  LET n    == Len(ds)
      d(j) == IF j <= n THEN ds[n + 1 - j] ELSE 0
  IN  NatNorm([i \in 1..((n + 3) \div 4) |->
                 d(4*i - 3) + 10 * d(4*i - 2) + 100 * d(4*i - 1) + 1000 * d(4*i)])

\* The decimal digit of a at position j (1 is the least significant).
DigitAt(a, j) == (Limb(a, (j - 1) \div 4 + 1) \div Pow10((j - 1) % 4)) % 10

\* Carry propagation over coefficients cs (each may exceed the base).
RECURSIVE CarryFrom(_, _, _)
CarryFrom(cs, i, c) ==
  IF i > Len(cs) /\ c = 0 THEN <<>>
  ELSE LET s == Limb(cs, i) + c
       IN  <<s % Base>> \o CarryFrom(cs, i + 1, s \div Base)

NatAdd(a, b) ==
  NatNorm(CarryFrom([i \in 1..Max2(Len(a), Len(b)) |-> Limb(a, i) + Limb(b, i)],
                    1, 0))

RECURSIVE SumProd(_, _, _, _)
SumProd(a, b, k, i) ==
  IF i > Len(a) THEN 0 ELSE a[i] * Limb(b, k + 1 - i) + SumProd(a, b, k, i + 1)

NatMul(a, b) ==
  IF a = <<>> \/ b = <<>> THEN <<>>
  ELSE NatNorm(CarryFrom([k \in 1..(Len(a) + Len(b) - 1) |-> SumProd(a, b, k, 1)],
                         1, 0))

\* a * 10^k
ShiftUp(a, k) ==
  IF a = <<>> THEN <<>>
  ELSE [i \in 1..(k \div 4) |-> 0]
       \o NatNorm(CarryFrom([i \in 1..Len(a) |-> a[i] * Pow10(k % 4)], 1, 0))

\* -1, 0, 1 as a < b, a = b, a > b (both normalised).
NatCmp(a, b) ==
  IF Len(a) < Len(b) THEN -1
  ELSE IF Len(a) > Len(b) THEN 1
  ELSE LET df == {i \in 1..Len(a) : a[i] # b[i]}
       IN  IF df = {} THEN 0
           ELSE LET i == CHOOSE x \in df : \A y \in df : y <= x
                IN  IF a[i] < b[i] THEN -1 ELSE 1

NatLeq(a, b) == NatCmp(a, b) <= 0

\* a \div 10^k, the digits below cut off.
TruncDiv(a, k) ==
  LET w  == k \div 4
      d  == Pow10(k % 4)
      hi == IF w >= Len(a) THEN <<>> ELSE SubSeq(a, w + 1, Len(a))
  IN  NatNorm([i \in 1..Len(hi) |->
                 hi[i] \div d + (Limb(hi, i + 1) % d) * (Base \div d)])

\* a / 10^k rounded to the nearest integer, a tie going to the even one.
RoundDiv(a, k) ==
  IF k = 0 THEN a
  ELSE LET q      == TruncDiv(a, k)
           first  == DigitAt(a, k)
           sticky == \E j \in 1..(k - 1) : DigitAt(a, j) # 0
           odd    == Limb(q, 1) % 2 = 1
           up     == first > 5 \/ (first = 5 /\ (sticky \/ odd))
       IN  IF up THEN NatAdd(q, <<1>>) ELSE q

----------------------------------------------------------------------------
(* rust_decimal::Decimal                                                   *)

\* The largest scale of a Decimal.
MAX_PRECISION == 28

\* The largest mantissa, 2^96 - 1.
MAX_MANTISSA ==
  Nat10(<<7,9,2,2,8,1,6,2,5,1,4,2,6,4,3,3,7,5,9,3,5,4,3,9,5,0,3,3,5>>)

\* The Decimal  (-1)^neg * m / 10^e.
Dec(neg, ds, e) == [neg |-> neg, m |-> Nat10(ds), e |-> e]

DecZero == [neg |-> FALSE, m |-> <<>>, e |-> 0]

\* The value p / 10^s brought into a Decimal: the scale is cut to 28 and
\* then as far as the mantissa needs to fit 96 bits, rounding half to even;
\* a value that does not fit at scale 0 overflows.
Fit(p, s) ==
  LET lo == Max2(0, s - MAX_PRECISION)
      ks == {k \in lo..s : NatLeq(RoundDiv(p, k), MAX_MANTISSA)}
  IN  IF ks = {} THEN [ok |-> FALSE, v |-> DecZero]
      ELSE LET k == CHOOSE x \in ks : \A y \in ks : x <= y
           IN  [ok |-> TRUE,
                v  |-> [neg |-> FALSE, m |-> RoundDiv(p, k), e |-> s - k]]

\* Decimal::checked_mul on non-negative values; ok = FALSE is None.
DecMul(a, b) ==
  IF a.m = <<>> \/ b.m = <<>> THEN [ok |-> TRUE, v |-> DecZero]
  ELSE Fit(NatMul(a.m, b.m), a.e + b.e)

\* Decimal::checked_add on non-negative values; ok = FALSE is None.
DecAdd(a, b) ==
  LET s == Max2(a.e, b.e)
  IN  Fit(NatAdd(ShiftUp(a.m, s - a.e), ShiftUp(b.m, s - b.e)), s)

\* The comparison turned around: a <= b.
DecGe_Reversed(a, b) ==
  IF b.neg THEN a.m = <<>> /\ b.m = <<>>
  ELSE LET s == Max2(a.e, b.e)
       IN  NatCmp(ShiftUp(a.m, s - a.e), ShiftUp(b.m, s - b.e)) <= 0

\* a >= b for a non-negative a: the comparison is exact.
DecGe(a, b) ==
  IF b.neg THEN TRUE
  ELSE LET s == Max2(a.e, b.e)
       IN  NatCmp(ShiftUp(a.m, s - a.e), ShiftUp(b.m, s - b.e)) >= 0

----------------------------------------------------------------------------
(* orders/price.rs                                                         *)

\* Ok(p.price); `level` notes the position of the level the price is from
\* (it is no part of the value returned).
Ok(price, level) == [kind |-> "Ok", price |-> price, level |-> level]

\* Error::InvalidOrder("Not enough liquidity ... with amount {}")
InvalidOrder(amount) == [kind |-> "InvalidOrder", amount |-> amount]

\* The `*` and `+=` of Decimal panic when the checked operation is None.
Panic == [kind |-> "Panic"]

\* The loop of calculate_market_price from level i on, with running sum.
RECURSIVE Scan(_, _, _, _)
Scan(ps, amount, i, sum) ==
  IF i > Len(ps) THEN InvalidOrder(amount)
  ELSE LET prod == DecMul(ps[i].size, ps[i].price)
       IN  IF ~prod.ok THEN Panic
           ELSE LET next == DecAdd(sum, prod.v)
                IN  IF ~next.ok THEN Panic
                    ELSE IF DecGe(next.v, amount) THEN Ok(ps[i].price, i)
                    ELSE Scan(ps, amount, i + 1, next.v)

calculate_market_price(ps, amount) == Scan(ps, amount, 1, DecZero)

----------------------------------------------------------------------------
(* The inputs of the pricing run.                                          *)

\* The longest book side tried.
MaxLevels == 3

Level(price, size) == [price |-> price, size |-> size]

\* The two levels of the documented example: 0.50 x 100 and 0.51 x 200.
LevelA == Level(Dec(FALSE, <<5,0>>, 2), Dec(FALSE, <<1,0,0>>, 0))
LevelB == Level(Dec(FALSE, <<5,1>>, 2), Dec(FALSE, <<2,0,0>>, 0))
\* A level whose price is a sentinel no fill should reach: 999 x 1.
LevelSentinel == Level(Dec(FALSE, <<9,9,9>>, 0), Dec(FALSE, <<1>>, 0))
\* An empty level: 0.50 x 0.
LevelEmpty == Level(Dec(FALSE, <<5,0>>, 2), DecZero)
\* Notional 4e-29 and 6e-29: below the last decimal place of a Decimal.
LevelDust4 == Level(Dec(FALSE, <<2>>, 15), Dec(FALSE, <<2>>, 14))
LevelDust6 == Level(Dec(FALSE, <<6>>, 15), Dec(FALSE, <<1>>, 14))
\* Notional 2 * (2^96 - 1) and 5e28.
LevelHuge == Level([neg |-> FALSE, m |-> MAX_MANTISSA, e |-> 0], Dec(FALSE, <<2>>, 0))
\* Notional 8400000000000000000000000000.6: more than 96 bits at scale 1.
LevelWide == Level(Dec(FALSE, <<6>>, 1),
                   Dec(FALSE, <<1,4,0,0,0,0,0,0,0,0,0,0,0,0,0,0,0,0,0,0,0,0,0,0,0,0,0,0,1>>, 0))
LevelHalf == Level(Dec(FALSE, <<5,0,0,0,0,0,0,0,0,0,0,0,0,0,0,0,0,0,0,0,0,0,0,0,0,0,0,0,0>>, 0),
                   Dec(FALSE, <<1>>, 0))

Levels == {LevelA, LevelB, LevelSentinel, LevelEmpty, LevelDust4, LevelDust6,
           LevelWide, LevelHuge, LevelHalf}

\* 0, 50.00, 60.00, 200.00, 1e-28, 8400000000000000000000000001,
\* 2^96 - 1 and -1.
Amounts == {DecZero, Dec(FALSE, <<5,0,0,0>>, 2), Dec(FALSE, <<6,0,0,0>>, 2),
            Dec(FALSE, <<2,0,0,0,0>>, 2), Dec(FALSE, <<1>>, 28),
            Dec(FALSE, <<8,4,0,0,0,0,0,0,0,0,0,0,0,0,0,0,0,0,0,0,0,0,0,0,0,0,0,1>>, 0),
            [neg |-> FALSE, m |-> MAX_MANTISSA, e |-> 0], Dec(TRUE, <<1>>, 0)}

Books == UNION {[1..n -> Levels] : n \in 0..MaxLevels}

NotCalled == [kind |-> "NotCalled"]

----------------------------------------------------------------------------
(* reqwest, as far as http/client.rs uses it.  A HeaderMap is a function   *)
(* from lower-case header names to the non-empty sequence of the values    *)
(* held under the name.                                                    *)

\* HeaderName of a caller's key: header names compare without case.
Canon(key) ==
  CASE key = "Content-Type" -> "content-type"
    [] key = "User-Agent"   -> "user-agent"
    [] OTHER                -> key

\* A header name holds no space; any other key is a builder error.
ValidName(key) == key # "bad name"

EmptyHeaders == [n \in {} |-> <<>>]

\* HeaderMap::insert: the value replaces what the name held.
HInsert(h, n, v) == [x \in DOMAIN h \cup {n} |-> IF x = n THEN <<v>> ELSE h[x]]

\* HeaderMap::append: the value is added to what the name holds.
HAppend(h, n, v) ==
  [x \in DOMAIN h \cup {n} |->
     IF x # n THEN h[x] ELSE IF n \in DOMAIN h THEN Append(h[n], v) ELSE <<v>>]

\* serde_json::to_vec of the bodies tried: a value with a field x, and a
\* value serde cannot encode.
ToJson(body) ==
  CASE body = "x=1"       -> [ok |-> TRUE,  text |-> "{\"x\":1}"]
    [] OTHER              -> [ok |-> FALSE, text |-> ""]

\* serde_json::from_slice into the caller's type T (one field x: int).
FromJson(text) ==
  CASE text = "{\"x\":1}" -> [ok |-> TRUE,  value |-> "x=1"]
    [] OTHER              -> [ok |-> FALSE, value |-> ""]

\* StatusCode::is_success
is_success(status) == status >= 200 /\ status < 300

NoBody == "(none)"

\* Client::get / Client::delete (url): a builder with no header and no body.
NewRequest(method, url) ==
  [method |-> method, url |-> url, headers |-> EmptyHeaders, body |-> NoBody,
   err |-> FALSE]

\* RequestBuilder::json: Content-Type is set where the request has none,
\* and the body is the encoding; an encoding failure is kept in the builder.
json(req, body) ==
  LET enc == ToJson(body)
  IN  IF req.err THEN req
      ELSE IF ~enc.ok THEN [req EXCEPT !.err = TRUE]
      ELSE [req EXCEPT
              !.headers = IF "content-type" \in DOMAIN req.headers
                          THEN req.headers
                          ELSE HInsert(req.headers, "content-type", "application/json"),
              !.body = enc.text]

\* RequestBuilder::header: the value is appended under the name.
header(req, key, value) ==
  IF req.err THEN req
  ELSE IF ~ValidName(key) THEN [req EXCEPT !.err = TRUE]
  ELSE [req EXCEPT !.headers = HAppend(req.headers, Canon(key), value)]

\* The request as the client puts it on the wire: each default header is
\* inserted where the request holds no value under its name.
WithDefaults(req, defaults) ==
  [req EXCEPT !.headers =
     [n \in DOMAIN req.headers \cup DOMAIN defaults |->
        IF n \in DOMAIN req.headers THEN req.headers[n] ELSE defaults[n]]]

----------------------------------------------------------------------------
(* http/client.rs                                                          *)

\* HttpClient::new
HttpClient_new(base_url) ==
  [base_url |-> base_url,
   default_headers |->
     HInsert(HInsert(HInsert(HInsert(EmptyHeaders,
       "user-agent", "py_clob_client"),
       "accept", "*/*"),
       "connection", "keep-alive"),
       "content-type", "application/json")]

\* `for (key, value) in headers { request = request.header(key, value) }`
\* over the keys in the order `order`.
RECURSIVE ApplyHeaders(_, _, _)
ApplyHeaders(req, headers, order) ==
  IF order = <<>> THEN req
  ELSE ApplyHeaders(header(req, Head(order), headers[Head(order)]), headers,
                    Tail(order))

\* The orders a HashMap may iterate its keys in.
Orders(S) ==
  {o \in [1..Cardinality(S) -> S] : \A i, j \in DOMAIN o : i # j => o[i] # o[j]}

\* Error::Api
ApiError(status, message) == [kind |-> "Api", status |-> status, message |-> message]

\* From<reqwest::Error> for Error: a transport-level error, not an ApiError.
TransportError(cause) == [kind |-> "Transport", cause |-> cause]

Success(value) == [kind |-> "Ok", value |-> value]

\* A response body the connection dropped under: reading it fails.
Broken == "(broken)"

\* Response::text
text(response) ==
  IF response.body = Broken THEN [ok |-> FALSE, text |-> ""]
  ELSE [ok |-> TRUE, text |-> response.body]

\* Response::json
json_body(response) ==
  IF response.body = Broken THEN [ok |-> FALSE, value |-> ""]
  ELSE FromJson(response.body)

\* handle_response as it would be if an error body that parses as T were
\* decoded like a success body.
handle_response_DecodesErrors(response) ==
  LET v == json_body(response)
      t == text(response)
  IN  IF is_success(response.status) \/ v.ok
      THEN [read   |-> "json",
            result |-> IF v.ok THEN Success(v.value) ELSE TransportError("decode")]
      ELSE [read   |-> "text",
            result |-> ApiError(response.status,
                                IF t.ok THEN t.text ELSE "Unknown error")]

\* handle_response as it would be if a success body that does not decode
\* were reported as an error of the API.
handle_response_DecodeFailureAsApi(response) ==
  LET v == json_body(response)
      t == text(response)
  IN  IF is_success(response.status) /\ v.ok
      THEN [read |-> "json", result |-> Success(v.value)]
      ELSE [read   |-> IF is_success(response.status) THEN "json" ELSE "text",
            result |-> ApiError(response.status,
                                IF t.ok THEN t.text ELSE "Unknown error")]

\* HttpClient::handle_response: the result, and the reader the body went
\* through.
handle_response(response) ==
  IF is_success(response.status)
  THEN LET v == json_body(response)
       IN  [read   |-> "json",
            result |-> IF v.ok THEN Success(v.value) ELSE TransportError("decode")]
  ELSE LET t == text(response)
       IN  [read   |-> "text",
            result |-> ApiError(response.status,
                                IF t.ok THEN t.text ELSE "Unknown error")]

----------------------------------------------------------------------------
(* The calls on one shared HttpClient.                                     *)

\* The number of calls that may be in flight on the client at once.
NumCalls == 2

CallIds == 1..NumCalls

BaseUrl == "https://clob.example"

Paths == {"/book"}

None == [some |-> FALSE, map |-> EmptyHeaders]
Some(map) == [some |-> TRUE, map |-> map]

\* The `headers` arguments tried: none, an override of a default header, a
\* second default header under a lower-case key with a header of the
\* caller's own, and a key that is no header name.
HeaderArgs ==
  {None,
   Some("Content-Type" :> "text/plain"),
   Some(("user-agent" :> "custom-agent") @@ ("X-Key" :> "k")),
   Some("bad name" :> "v")}

\* The `body` arguments tried.
BodyArgs == {"x=1", "unserializable"}

\* The statuses and bodies a server answers with.
Statuses == {200, 299, 300, 404}
ResponseBodies == {"{\"x\":1}", "not found", Broken}

NoResponse == [status |-> 0, body |-> NoBody]
NotSent == NewRequest("", "")
NoResult == [kind |-> "None"]

Idle ==
  [pc |-> "idle", op |-> "", headers |-> None, body |-> NoBody,
   request |-> NotSent, requests |-> 0, response |-> NoResponse,
   read |-> "none", result |-> NoResult]

pricing == <<positions, amount_to_match, ret>>

\* A finished call is held in "done" until its caller has taken the result
\* (Return).  Calls finish one at a time: Return touches nothing but the
\* finished call's own slot, so taking each result before the next call
\* finishes loses no behaviour of the calls in flight.
NoneDone == \A d \in CallIds : calls[d].pc # "done"

\* send as it would be if the client kept the call's headers as defaults
\* of its own.
send_KeepsHeaders(c, op, headers, body, req) ==
  /\ req.err => NoneDone
  /\ calls' = [calls EXCEPT ![c] =
       IF req.err
       THEN [Idle EXCEPT !.pc = "done", !.op = op, !.headers = headers,
                         !.body = body, !.result = TransportError("builder")]
       ELSE [Idle EXCEPT !.pc = "sent", !.op = op, !.headers = headers,
                         !.body = body, !.requests = 1,
                         !.request = WithDefaults(req, client.default_headers)]]
  /\ client' = IF req.err THEN client
               ELSE [client EXCEPT !.default_headers =
                       WithDefaults(req, client.default_headers).headers]
  /\ UNCHANGED pricing

\* `request.send().await`: a builder error comes back from send at once;
\* otherwise the request goes out with the client's default headers.
send(c, op, headers, body, req) ==
  /\ req.err => NoneDone
  /\ calls' = [calls EXCEPT ![c] =
       IF req.err
       THEN [Idle EXCEPT !.pc = "done", !.op = op, !.headers = headers,
                         !.body = body, !.result = TransportError("builder")]
       ELSE [Idle EXCEPT !.pc = "sent", !.op = op, !.headers = headers,
                         !.body = body, !.requests = 1,
                         !.request = WithDefaults(req, client.default_headers)]]
  /\ UNCHANGED <<client, pricing>>

\* HttpClient::get up to the await of send.
Get(c) ==
  /\ calls[c].pc = "idle"
  /\ \E path \in Paths, headers \in HeaderArgs :
       \E order \in Orders(DOMAIN headers.map) :
         LET request == NewRequest("GET", client.base_url \o path)
         IN  send(c, "get", headers, NoBody,
                  ApplyHeaders(request, headers.map, order))

\* HttpClient::post up to the await of send.
Post(c) ==
  /\ calls[c].pc = "idle"
  /\ \E path \in Paths, body \in BodyArgs, headers \in HeaderArgs :
       \E order \in Orders(DOMAIN headers.map) :
         LET request == json(NewRequest("POST", client.base_url \o path), body)
         IN  send(c, "post", headers, body,
                  ApplyHeaders(request, headers.map, order))

\* HttpClient::delete up to the await of send.
Delete(c) ==
  /\ calls[c].pc = "idle"
  /\ \E path \in Paths, headers \in HeaderArgs :
       \E order \in Orders(DOMAIN headers.map) :
         LET request == NewRequest("DELETE", client.base_url \o path)
         IN  send(c, "delete", headers, NoBody,
                  ApplyHeaders(request, headers.map, order))

\* HttpClient::delete_with_body up to the await of send.
DeleteWithBody(c) ==
  /\ calls[c].pc = "idle"
  /\ \E path \in Paths, body \in BodyArgs, headers \in HeaderArgs :
       \E order \in Orders(DOMAIN headers.map) :
         LET request == json(NewRequest("DELETE", client.base_url \o path), body)
         IN  send(c, "delete_with_body", headers, body,
                  ApplyHeaders(request, headers.map, order))

\* SendFails as it would be if a failed send were tried again.
SendFails_Retries(c) ==
  /\ calls[c].pc = "sent"
  /\ calls' = [calls EXCEPT ![c].requests = @ + 1]
  /\ UNCHANGED <<client, pricing>>

\* `request.send().await?` where no response arrives (no route, DNS, TLS,
\* a reset connection): the error of send is converted and returned.
SendFails(c) ==
  /\ calls[c].pc = "sent"
  /\ NoneDone
  /\ calls' = [calls EXCEPT ![c].pc = "done",
                            ![c].result = TransportError("send")]
  /\ UNCHANGED <<client, pricing>>

\* `self.handle_response(response).await` on the response that arrives.
Respond(c) ==
  /\ calls[c].pc = "sent"
  /\ NoneDone
  /\ \E status \in Statuses, body \in ResponseBodies :
       LET response == [status |-> status, body |-> body]
           h == handle_response(response)
       IN  calls' = [calls EXCEPT ![c].pc = "done",
                                  ![c].response = response,
                                  ![c].read = h.read,
                                  ![c].result = h.result]
  /\ UNCHANGED <<client, pricing>>

\* The caller takes the result; the slot is free for its next call.
Return(c) ==
  /\ calls[c].pc = "done"
  /\ calls' = [calls EXCEPT ![c] = Idle]
  /\ UNCHANGED <<client, pricing>>

Init ==
  /\ client = HttpClient_new(BaseUrl)
  /\ calls = [c \in CallIds |-> Idle]
  /\ positions = <<>>
  /\ amount_to_match = DecZero
  /\ ret = NotCalled

Next ==
  \E c \in CallIds :
    \/ Get(c)
    \/ Post(c)
    \/ Delete(c)
    \/ DeleteWithBody(c)
    \/ SendFails(c)
    \/ Respond(c)
    \/ Return(c)

Spec == Init /\ [][Next]_vars

----------------------------------------------------------------------------
(* The pricing run: the inputs are drawn at the start, the call applies    *)
(* calculate_market_price to them.                                         *)

InitPrice ==
  /\ positions \in Books
  /\ amount_to_match \in Amounts
  /\ ret = NotCalled
  /\ client = HttpClient_new(BaseUrl)
  /\ calls = [c \in CallIds |-> Idle]

Call ==
  /\ ret = NotCalled
  /\ ret' = calculate_market_price(positions, amount_to_match)
  /\ UNCHANGED <<positions, amount_to_match, client, calls>>

NextPrice == Call

SpecPrice == InitPrice /\ [][NextPrice]_vars

----------------------------------------------------------------------------
(* The notional of a book in exact arithmetic, in units of 10^-56 (no      *)
(* product of two Decimals has more decimal places).                       *)

ExactScale == 2 * MAX_PRECISION

Notional(l) ==
  ShiftUp(NatMul(l.size.m, l.price.m), ExactScale - l.size.e - l.price.e)

RECURSIVE CumNotional(_, _)
CumNotional(ps, n) ==
  IF n = 0 THEN <<>> ELSE NatAdd(CumNotional(ps, n - 1), Notional(ps[n]))

\* The first n levels' notional reaches or exceeds the amount.
Reaches(ps, amount, n) ==
  \/ amount.neg
  \/ NatCmp(CumNotional(ps, n), ShiftUp(amount.m, ExactScale - amount.e)) >= 0

Called == ret.kind # "NotCalled"

----------------------------------------------------------------------------
(* Pricing claims                                                          *)

\* C1: where some prefix's cumulative notional reaches or exceeds
\* amount_to_match, the call returns the price of the last level of the
\* shortest such prefix, whatever the levels after it are.
C1_ShortestPrefixPrice ==
  Called =>
    \A n \in 1..Len(positions) :
      (/\ Reaches(positions, amount_to_match, n)
       /\ \A k \in 1..(n - 1) : ~Reaches(positions, amount_to_match, k))
      => ret.kind = "Ok" /\ ret.price = positions[n].price

\* C2: the call returns InvalidOrder carrying amount_to_match, and no
\* price, whenever the total notional is strictly less than
\* amount_to_match, and whenever the book is empty and amount_to_match >= 0.
C2_InsufficientLiquidity ==
  Called =>
    ((\/ positions = <<>> /\ ~amount_to_match.neg
      \/ ~Reaches(positions, amount_to_match, Len(positions)))
     => ret = InvalidOrder(amount_to_match))

\* C9: a non-positive amount_to_match is not rejected: on a non-empty book
\* whose levels all have a size other than zero the call returns the first
\* level's price and no error.
C9_NonPositiveAmount ==
  (/\ Called
   /\ positions # <<>>
   /\ \A i \in DOMAIN positions : positions[i].size.m # <<>>
   /\ (amount_to_match.neg \/ amount_to_match.m = <<>>))
  => ret.kind = "Ok" /\ ret.price = positions[1].price

\* -1, 0, 1 as |a| < |b|, |a| = |b|, |a| > |b|.
MagCmp(a, b) ==
  LET s == Max2(a.e, b.e)
  IN  NatCmp(ShiftUp(a.m, s - a.e), ShiftUp(b.m, s - b.e))

\* A <= B for two amounts of either sign.
AmountLe(a, b) ==
  LET na == a.neg /\ a.m # <<>>
      nb == b.neg /\ b.m # <<>>
  IN  IF na THEN ~nb \/ MagCmp(a, b) >= 0
      ELSE ~nb /\ MagCmp(a, b) <= 0

\* C10: on one book, for amounts A <= B: where the call for B returns a
\* price, the call for A returns a price too, from a level at the same or
\* an earlier position.
C10_MonotoneInAmount ==
  (Called /\ ret.kind = "Ok") =>
    \A a \in Amounts :
      AmountLe(a, amount_to_match) =>
        LET r == calculate_market_price(positions, a)
        IN  r.kind = "Ok" /\ r.level <= ret.level

\* The documented book: 60.00 is filled at the second level, 50.00 at the
\* first.
C10_Witness ==
  /\ positions = <<LevelA, LevelB>>
  /\ amount_to_match = Dec(FALSE, <<6,0,0,0>>, 2)
  /\ ret.kind = "Ok" /\ ret.level = 2
  /\ calculate_market_price(positions, Dec(FALSE, <<5,0,0,0>>, 2)).level = 1

\* C6: the call is total: on every book of levels with price >= 0 and
\* size >= 0 and every amount it returns a price or an InvalidOrder error,
\* and never aborts without a result.
C6_Total == Called => ret.kind \in {"Ok", "InvalidOrder"}

----------------------------------------------------------------------------
(* Transport claims                                                        *)

\* The call's request went out.
HasWire(c) == calls[c].request.method # ""

\* The call ended on a response.
Answered(c) == calls[c].pc = "done" /\ calls[c].response.status # 0

\* C3: for each operation, a response with a non-2xx status gives an
\* ApiError whose status is the response's and whose message is the body
\* text as it is, or "Unknown error" where reading the body fails; the body
\* is not decoded as JSON on this path, even where it would decode as T.
C3_ErrorPath ==
  \A c \in CallIds :
    (Answered(c) /\ ~is_success(calls[c].response.status)) =>
      /\ calls[c].result =
           ApiError(calls[c].response.status,
                    IF calls[c].response.body = Broken THEN "Unknown error"
                    ELSE calls[c].response.body)
      /\ calls[c].read # "json"

\* A delete_with_body answered 404 with a body that is valid JSON for T.
C3_Witness ==
  \E c \in CallIds :
    /\ Answered(c)
    /\ calls[c].op = "delete_with_body"
    /\ calls[c].response = [status |-> 404, body |-> "{\"x\":1}"]
    /\ calls[c].result = ApiError(404, "{\"x\":1}")

Decodable(body) == body # Broken /\ FromJson(body).ok

\* C4: a call returns an ApiError only on a response with a non-2xx status:
\* a failure to send and a 2xx response whose body does not decode into T
\* both give a TransportError, and a 2xx response with a body that decodes
\* gives the decoded value.
C4_ApiOnlyOnNon2xx ==
  \A c \in CallIds :
    calls[c].pc = "done" =>
      /\ calls[c].result.kind = "Api" =>
           Answered(c) /\ ~is_success(calls[c].response.status)
      /\ ~Answered(c) => calls[c].result.kind = "Transport"
      /\ (Answered(c) /\ is_success(calls[c].response.status)) =>
           calls[c].result =
             IF Decodable(calls[c].response.body)
             THEN Success(FromJson(calls[c].response.body).value)
             ELSE TransportError("decode")

\* A call answered 200 with a body that is no JSON for T ended on a
\* TransportError.
C4_Witness ==
  \E c \in CallIds :
    /\ Answered(c)
    /\ calls[c].response = [status |-> 200, body |-> "not found"]
    /\ calls[c].result.kind = "Transport"

\* C5: for each operation, a header the caller supplies under the name of
\* a default header goes out with exactly one value, the caller's.
C5_OverrideNotDuplicated ==
  \A c \in CallIds :
    HasWire(c) =>
      \A k \in DOMAIN calls[c].headers.map :
        Canon(k) \in DOMAIN HttpClient_new(BaseUrl).default_headers =>
          calls[c].request.headers[Canon(k)] = <<calls[c].headers.map[k]>>

OwnValues(c, n) ==
  LET mine == {calls[c].headers.map[k] :
                 k \in {x \in DOMAIN calls[c].headers.map : Canon(x) = n}}
      defaults == HttpClient_new(BaseUrl).default_headers
  IN  [supplied |-> mine # {},
       allowed  |-> mine \cup (IF n \in DOMAIN defaults THEN {defaults[n][1]} ELSE {})]

\* C7: no call changes the shared client (base URL, default headers); under
\* any interleaving the headers given to one call appear in that call's
\* request only, every call sends the default value of each default header
\* it does not supply, and a call's outcome is that of its own response.
C7_NoSharedState ==
  /\ client = HttpClient_new(BaseUrl)
  /\ \A c \in CallIds :
       /\ HasWire(c) =>
            LET wire == calls[c].request.headers
                defaults == HttpClient_new(BaseUrl).default_headers
            IN  /\ \A n \in DOMAIN wire :
                     \A i \in DOMAIN wire[n] : wire[n][i] \in OwnValues(c, n).allowed
                /\ \A n \in DOMAIN defaults :
                     ~OwnValues(c, n).supplied =>
                       n \in DOMAIN wire /\ wire[n] = defaults[n]
       /\ Answered(c) =>
            /\ calls[c].result = handle_response(calls[c].response).result
            /\ calls[c].read = handle_response(calls[c].response).read

\* Two calls in flight at once, one overriding User-Agent and adding a
\* header of its own, the other supplying no header and sending the default.
C7_Witness ==
  \E c, d \in CallIds :
    /\ c # d
    /\ calls[c].pc = "sent" /\ calls[d].pc = "sent"
    /\ calls[c].headers = Some(("user-agent" :> "custom-agent") @@ ("X-Key" :> "k"))
    /\ calls[c].request.headers["user-agent"] = <<"custom-agent">>
    /\ calls[d].headers = None
    /\ calls[d].request.headers["user-agent"] = <<"py_clob_client">>
    /\ "X-Key" \notin DOMAIN calls[d].request.headers

====
